---- MODULE Spec2Model ----
(***************************************************************************)
(* Verification model of the remindr workspace.                            *)
(*                                                                         *)
(*   Part I   crates/gpui-nav : Navigator, a stack of screens with a       *)
(*            parallel history of screen ids (NavSpec).                    *)
(*   Part II  crates/router   : Route / Routes builders, the route map and *)
(*            the render pass (RouterSpec, LayoutSpec).                    *)
(*   Part III crates/gpui, crates/remindr : the global Settings and the    *)
(*            handlers that change it (SettingsSpec).                      *)
(*   Part IV  crates/gpui     : DocumentState and its autosave timers      *)
(*            (DocumentSpec).                                              *)
(*   Part V   crates/gpui     : FolderRepository over the folders and      *)
(*            documents tables (FolderSpec, FolderMoveSpec).               *)
(*   Part VI  crates/gpui     : TextNode, the handlers of one text block   *)
(*            (TextSpec).                                                  *)
(*   Part VII crates/remindr  : SettingsWindow::open and the tasks it      *)
(*            spawns (WindowSpec).                                         *)
(*   Part VIII crates/gpui    : DragController, reordering of blocks       *)
(*            (DragSpec).                                                  *)
(***************************************************************************)
EXTENDS Integers, Sequences, FiniteSets, TLC

VARIABLES
    \* ---- Part I: gpui-nav --------------------------------------------
    stack,        \* Navigator.stack   : Vec<AnyView>
    history,      \* Navigator.history : Vec<&'static str>
    notifies,     \* number of cx.notify() calls made on the owning context
    nextEntity,   \* number of entities created so far by cx.new
    entered,      \* entities whose Screen::on_enter has been called
    exited,       \* entities whose Screen::on_exit has been called
    navCall,      \* the last Navigator method call: operation, argument,
                  \* return value and the state it was called in
    \* ---- Part II: router ---------------------------------------------
    debug,        \* cfg!(debug_assertions) of the build
    pathname,     \* RouterState.location.pathname
    params,       \* RouterState.params : HashMap<SharedString, SharedString>
    phase,        \* "idle" | "build" | "rendered" | "panicked"
    basename,     \* Routes.basename of the Routes value the view builds
    routes,       \* Routes.routes   of the Routes value the view builds
    building,     \* Route values under construction, innermost last
    invoked,      \* element factories called by the last render pass, in
                  \* call order
    output,       \* the element tree the last render pass produced
    panicMsg,     \* the message of the panic that ended the run, "" if none
    lastNavigate, \* the argument of the latest call of the closure that
                  \* use_navigate returned, None before the first call
    \* ---- Part III: settings -----------------------------------------
    settings,     \* the global Settings
    saved,        \* the JSON the latest Settings::save call serialized,
                  \* None before the first call
    \* ---- Part IV: document state ------------------------------------
    documents,                \* DocumentState.documents
    current_opened_document,  \* DocumentState.current_opened_document
    persistence,              \* DocumentState.persistence
    last_change,              \* DocumentState.last_change
    pending_notification,     \* DocumentState.pending_notification
    now,          \* the latest value Instant::now() returned
    timers,       \* the tasks mark_changed spawned, in spawn order, with
                  \* what each captured and whether it has run
    issued,       \* the update_document calls issued so far, in order
    lateCall,     \* has mark_changed been called after a timer fired
    \* ---- Part V: folder repository ----------------------------------
    folders,      \* table folders: id -> [name, parent_id]
    docRows,      \* table documents: id -> [folder_id]
    folderCall,   \* the last repository call: operation, arguments, result
                  \* and the tables it was called on
    \* ---- Part VI: text node ------------------------------------
    text_content,      \* TextNode.data.metadata.content
    input_value,       \* the value of the node's InputState
    is_focus,          \* TextNode.is_focus
    menu_open,         \* SlashMenu.open of the node's menu
    nodes,             \* the ids of the nodes of the NodeState, in order
    focused_input,     \* the node whose input the latest handler focused
    old_content,       \* the content when the latest handler was called
    emitted,           \* the events the latest handler passed on
    \* ---- Part VII: settings window -----------------------------
    SETTINGS_WINDOW,   \* the static Mutex<Option<WindowId>>
    windows,           \* the ids of the settings windows in cx.windows()
    openTasks,         \* window-creation tasks spawned and not yet run
    nextWindow,        \* number of settings windows created so far
    activated,         \* the window activate_window was last called on
    \* ---- Part VIII: drag controller ----------------------------
    elements,          \* the Vec of blocks of the current document, by id
    dragging_id,       \* DragController.dragging_id
    hovered_drop_zone, \* DragController.hovered_drop_zone
    is_dragging,       \* DragController.is_dragging
    dropCall           \* the last drop: indices, position, Vec before

navVars == <<stack, history, notifies, nextEntity, entered, exited, navCall>>

routerVars == <<debug, pathname, params, phase, basename, routes, building,
                invoked, output, panicMsg, lastNavigate>>

settingsVars == <<settings, saved>>

docVars == <<documents, current_opened_document, persistence,
             last_change, pending_notification, now, timers,
             issued, lateCall>>

folderVars == <<folders, docRows, folderCall>>

textVars == <<text_content, input_value, is_focus, menu_open, nodes,
              focused_input, old_content, emitted>>

windowVars == <<SETTINGS_WINDOW, windows, openTasks, nextWindow, activated>>

dragVars == <<elements, dragging_id, hovered_drop_zone, is_dragging,
              dropCall>>

vars == <<navVars, routerVars, settingsVars, docVars, folderVars,
         textVars, windowVars, dragVars>>

\* What the steps of one part leave alone.
outsideNav == <<routerVars, settingsVars, docVars, folderVars,
    textVars, windowVars, dragVars>>
outsideRouter == <<navVars, settingsVars, docVars, folderVars,
    textVars, windowVars, dragVars>>
outsideSettings == <<navVars, routerVars, docVars, folderVars,
    textVars, windowVars, dragVars>>
outsideDocuments == <<navVars, routerVars, settingsVars, folderVars,
    textVars, windowVars, dragVars>>
outsideFolders == <<navVars, routerVars, settingsVars, docVars,
    textVars, windowVars, dragVars>>
outsideText == <<navVars, routerVars, settingsVars, folderVars,
    windowVars, dragVars>>
outsideWindows == <<navVars, routerVars, settingsVars, docVars,
    folderVars, textVars, dragVars>>
outsideDrag == <<navVars, routerVars, settingsVars, docVars,
    folderVars, textVars, windowVars>>

(***************************************************************************)
(* Part I. Navigator (crates/gpui-nav/src/navigator.rs)                    *)
(***************************************************************************)

\* Number of screens the application creates in one run.
MaxScreens == 4

\* Values returned by Screen::id(); two screens may share an id.
ScreenIds == {"home", "detail"}

NoScreen == [ent |-> 0, id |-> "none"]

Front(s) == SubSeq(s, 1, Len(s) - 1)

\* Vec::pop: removes the last element when there is one.
VecPop(s) == IF s = <<>> THEN s ELSE Front(s)

\* The navigator together with the context's notify count, as one value the
\* methods below transform.
NavState == [stack |-> stack, history |-> history, notifies |-> notifies]

\* Navigator::new
new == [stack |-> <<>>, history |-> <<>>]

\* Navigator::len / is_empty / can_go_back / current / history
len(n) == Len(n.stack)
is_empty(n) == n.stack = <<>>
can_go_back(n) == Len(n.stack) > 1
current(n) == IF n.stack = <<>> THEN NoScreen ELSE n.stack[Len(n.stack)]

\* Navigator::push: the screen becomes an entity, is appended to the stack,
\* its id is appended to the history, and the context is notified.
push(n, screen) ==
    [stack    |-> Append(n.stack, screen),
     history  |-> Append(n.history, screen.id),
     notifies |-> n.notifies + 1]

\* Faulty pop: cx.notify() placed after the depth test instead of inside it.
pop_notify_always(n) ==
    IF Len(n.stack) > 1
    THEN [nav |-> [stack    |-> VecPop(n.stack),
                   history  |-> VecPop(n.history),
                   notifies |-> n.notifies + 1],
          ret |-> TRUE]
    ELSE [nav |-> [n EXCEPT !.notifies = @ + 1], ret |-> FALSE]

\* Faulty pop: the depth test is off by one (>= 1), so the root is popped.
pop_nonempty(n) ==
    IF Len(n.stack) >= 1
    THEN [nav |-> [stack    |-> VecPop(n.stack),
                   history  |-> VecPop(n.history),
                   notifies |-> n.notifies + 1],
          ret |-> TRUE]
    ELSE [nav |-> n, ret |-> FALSE]

\* Navigator::pop
pop(n) ==
    IF Len(n.stack) > 1
    THEN [nav |-> [stack    |-> VecPop(n.stack),
                   history  |-> VecPop(n.history),
                   notifies |-> n.notifies + 1],
          ret |-> TRUE]
    ELSE [nav |-> n, ret |-> FALSE]

\* Faulty replace: history.pop() is left out.
replace_keep_history(n, screen) ==
    IF n.stack = <<>>
    THEN [nav |-> n, ret |-> FALSE]
    ELSE [nav |-> push([n EXCEPT !.stack = VecPop(@)], screen),
          ret |-> TRUE]

\* Faulty replace: the is_empty() test is left out.
replace_unchecked(n, screen) ==
    [nav |-> push([n EXCEPT !.stack = VecPop(@), !.history = VecPop(@)], screen),
     ret |-> TRUE]

\* Faulty replace: removes the top with Navigator::pop, which keeps the root.
replace_via_pop(n, screen) ==
    IF n.stack = <<>>
    THEN [nav |-> n, ret |-> FALSE]
    ELSE [nav |-> push(pop(n).nav, screen), ret |-> TRUE]

\* Navigator::replace
replace(n, screen) ==
    IF n.stack = <<>>
    THEN [nav |-> n, ret |-> FALSE]
    ELSE [nav |-> push([n EXCEPT !.stack = VecPop(@), !.history = VecPop(@)], screen),
          ret |-> TRUE]

\* Faulty clear_and_push: stack.clear() is left out.
clear_and_push_keep_stack(n, screen) ==
    push([n EXCEPT !.history = <<>>], screen)

\* Navigator::clear_and_push
clear_and_push(n, screen) ==
    push([n EXCEPT !.stack = <<>>, !.history = <<>>], screen)

\* cx.new(|_| screen): the screen value moved into a fresh entity.
NewScreen(sid) == [ent |-> nextEntity + 1, id |-> sid]

\* The record of a Navigator method call made in the current state.
Called(op, screen, ret) ==
    [op |-> op, screen |-> screen, ret |-> ret,
     preStack |-> stack, preHistory |-> history, preNotifies |-> notifies]

\* The state after Navigator::new().
NavStart ==
    /\ stack = new.stack
    /\ history = new.history
    /\ notifies = 0
    /\ nextEntity = 0
    /\ entered = {}
    /\ exited = {}
    /\ navCall = [op |-> "new", screen |-> NoScreen, ret |-> TRUE,
                  preStack |-> <<>>, preHistory |-> <<>>, preNotifies |-> 0]

\* A call of Navigator::push by the application (its unit return is recorded
\* as TRUE).
Push ==
    \E sid \in ScreenIds :
        /\ nextEntity < MaxScreens
        /\ LET screen == NewScreen(sid)
               r == push(NavState, screen)
           IN /\ stack' = r.stack
              /\ history' = r.history
              /\ notifies' = r.notifies
              /\ navCall' = Called("push", screen, TRUE)
        /\ nextEntity' = nextEntity + 1
        /\ UNCHANGED <<entered, exited>>

\* A call of Navigator::pop.
Pop ==
    /\ LET r == pop(NavState)
       IN /\ stack' = r.nav.stack
          /\ history' = r.nav.history
          /\ notifies' = r.nav.notifies
          /\ navCall' = Called("pop", NoScreen, r.ret)
    /\ UNCHANGED <<nextEntity, entered, exited>>

\* A call of Navigator::replace. The entity is created by the inner push, so
\* none is created when the navigator is empty.
Replace ==
    \E sid \in ScreenIds :
        /\ nextEntity < MaxScreens
        /\ LET screen == NewScreen(sid)
               r == replace(NavState, screen)
           IN /\ stack' = r.nav.stack
              /\ history' = r.nav.history
              /\ notifies' = r.nav.notifies
              /\ navCall' = Called("replace", screen, r.ret)
              /\ nextEntity' = IF r.ret THEN nextEntity + 1 ELSE nextEntity
        /\ UNCHANGED <<entered, exited>>

\* A call of Navigator::clear_and_push (unit return recorded as TRUE).
ClearAndPush ==
    \E sid \in ScreenIds :
        /\ nextEntity < MaxScreens
        /\ LET screen == NewScreen(sid)
               r == clear_and_push(NavState, screen)
           IN /\ stack' = r.stack
              /\ history' = r.history
              /\ notifies' = r.notifies
              /\ navCall' = Called("clear_and_push", screen, TRUE)
        /\ nextEntity' = nextEntity + 1
        /\ UNCHANGED <<entered, exited>>

(***************************************************************************)
(* Part II. Router (crates/router/src)                                     *)
(*                                                                         *)
(* A string is held as the sequence of its pieces between '/' characters   *)
(* (what str::split('/') yields): "" is <<"">>, "/" is <<"", "">>, "/a" is *)
(* <<"", "a">>, "a/b" is <<"a", "b">>. Every string has exactly one such   *)
(* sequence, and the sequence is never empty.                              *)
(***************************************************************************)

\* Route::new() calls made to build the Routes value.
MaxRoutes == 2

\* Routes under construction at the same time (nesting of child(...) calls).
MaxNest == 2

EmptyStr == <<"">>
Slash == <<"", "">>

\* Arguments given to Route::path.
PathArgs == { <<"a">>, <<"{id}">>, <<"{*rest}">> }

\* Arguments given to Routes::basename.
BasenameArgs == { Slash, <<"", "a">> }

\* Arguments given to the closure returned by use_navigate.
Pathnames == { Slash, <<"", "a">>, <<"", "a", "b">> }

\* Pieces that matchit reads as a named parameter / a catch-all parameter,
\* and the parameter's name.
ParamTokens == {"{id}"}
CatchAllTokens == {"{*rest}"}
ParamName(tok) == IF tok = "{id}" THEN "id" ELSE "rest"

\* Option<T>
None == <<>>
Some(x) == <<x>>
is_some(o) == o # <<>>
unwrap(o) == o[1]

\* str::trim_end_matches('/')
RECURSIVE trim_end_matches(_)
trim_end_matches(s) ==
    IF Len(s) > 1 /\ s[Len(s)] = "" THEN trim_end_matches(Front(s)) ELSE s

\* format!("{}/{}", a, b)
format_slash(a, b) == a \o b

\* Route::default
DefaultRoute ==
    [basename |-> EmptyStr, path |-> None, element |-> None,
     routes |-> <<>>, layout |-> None]

\* Route::basename
with_basename(route, b) == [route EXCEPT !.basename = b]

\* Route::path
path(route, p) == [route EXCEPT !.path = Some(p)]

ElementLayoutMsg == "Route element and layout cannot be set at the same time"
IndexPathMsg == "Route index and path cannot be set at the same time"
UnwrapMsg == "called Result::unwrap() on an Err value"

\* Faulty element: the debug test of layout is left out.
element_unchecked(route, f, dbg) ==
    [panic |-> "", route |-> [route EXCEPT !.element = Some(f)]]

\* Route::element: boxes the closure f; the closure is not called.
element(route, f, dbg) ==
    IF dbg /\ is_some(route.layout)
    THEN [panic |-> ElementLayoutMsg, route |-> route]
    ELSE [panic |-> "", route |-> [route EXCEPT !.element = Some(f)]]

\* Route::layout
layout(route, l, dbg) ==
    IF dbg /\ is_some(route.element)
    THEN [panic |-> ElementLayoutMsg, route |-> route]
    ELSE [panic |-> "", route |-> [route EXCEPT !.layout = Some(l)]]

\* Route::index
index(route, dbg) ==
    IF dbg /\ is_some(route.path)
    THEN [panic |-> IndexPathMsg, route |-> route]
    ELSE [panic |-> "", route |-> path(route, EmptyStr)]

\* Route::child
child(route, c) == [route EXCEPT !.routes = Append(@, c)]

(***************************************************************************)
(* matchit::Router<()> as the route map uses it: the set of inserted       *)
(* patterns, and err once an insert or merge returned Err (every call site *)
(* unwraps the result).                                                    *)
(***************************************************************************)
MatchitNew == [err |-> FALSE, pats |-> {}]

IsWild(tok) == tok \in ParamTokens \cup CatchAllTokens

\* A catch-all parameter is allowed only as the last piece of a route.
ValidPattern(p) ==
    \A i \in 1..Len(p) : p[i] \in CatchAllTokens => i = Len(p)

\* Two routes that cannot be told apart: equal up to parameter names, or a
\* named parameter and a catch-all parameter at the same place.
RECURSIVE Conflicts(_, _)
Conflicts(p, q) ==
    IF p = <<>> \/ q = <<>> THEN p = q
    ELSE IF IsWild(Head(p)) /\ IsWild(Head(q))
         THEN \/ Head(p) \in CatchAllTokens
              \/ Head(q) \in CatchAllTokens
              \/ Conflicts(Tail(p), Tail(q))
         ELSE Head(p) = Head(q) /\ Conflicts(Tail(p), Tail(q))

\* Router::insert
insert(m, p) ==
    IF m.err \/ ~ValidPattern(p) \/ (\E q \in m.pats : Conflicts(p, q))
    THEN [m EXCEPT !.err = TRUE]
    ELSE [m EXCEPT !.pats = @ \cup {p}]

\* Router::merge: inserts every route of the other map.
merge(m, other) ==
    IF m.err \/ other.err \/
       (\E p \in other.pats : \E q \in m.pats : Conflicts(p, q))
    THEN [err |-> TRUE, pats |-> m.pats \cup other.pats]
    ELSE [err |-> FALSE, pats |-> m.pats \cup other.pats]

\* Does pattern p match the path s, piece by piece. A named parameter takes
\* one non-empty piece, a catch-all parameter the non-empty rest.
RECURSIVE Matches(_, _)
Matches(p, s) ==
    IF p = <<>> THEN s = <<>>
    ELSE IF s = <<>> THEN FALSE
    ELSE IF Head(p) \in CatchAllTokens THEN Len(p) = 1 /\ s # EmptyStr
    ELSE IF Head(p) \in ParamTokens
         THEN Head(s) # "" /\ Matches(Tail(p), Tail(s))
         ELSE Head(p) = Head(s) /\ Matches(Tail(p), Tail(s))

\* matchit tries a static piece first, then a named parameter, then a
\* catch-all, backtracking on failure: p is preferred to q when it has the
\* stronger piece at the first place where they differ in kind.
Kind(tok) ==
    IF tok \in CatchAllTokens THEN 2 ELSE IF tok \in ParamTokens THEN 1 ELSE 0

RECURSIVE Preferred(_, _)
Preferred(p, q) ==
    IF p = <<>> \/ q = <<>> THEN FALSE
    ELSE IF Kind(Head(p)) # Kind(Head(q)) THEN Kind(Head(p)) < Kind(Head(q))
    ELSE Preferred(Tail(p), Tail(q))

\* The parameters a matching pattern binds, as (key, value) pairs in order.
RECURSIVE ParamsOf(_, _)
ParamsOf(p, s) ==
    IF p = <<>> \/ s = <<>> THEN <<>>
    ELSE IF Head(p) \in CatchAllTokens THEN << <<ParamName(Head(p)), s>> >>
    ELSE IF Head(p) \in ParamTokens
         THEN << <<ParamName(Head(p)), <<Head(s)>> >> >> \o ParamsOf(Tail(p), Tail(s))
         ELSE ParamsOf(Tail(p), Tail(s))

\* Router::at
at(m, s) ==
    LET hits == {p \in m.pats : Matches(p, s)}
    IN IF hits = {}
       THEN [ok |-> FALSE, pattern |-> <<>>, params |-> <<>>]
       ELSE LET best == CHOOSE p \in hits : \A q \in hits : ~Preferred(q, p)
            IN [ok |-> TRUE, pattern |-> best, params |-> ParamsOf(best, s)]

\* Route::build_route_map
RECURSIVE build_route_map(_, _)
build_route_map(route, base) ==
    LET b == trim_end_matches(base)
        joined == IF is_some(route.path)
                  THEN format_slash(b, unwrap(route.path))
                  ELSE b
        p == IF joined # Slash THEN trim_end_matches(joined) ELSE joined
        merged[i \in 0..Len(route.routes)] ==
            IF i = 0 THEN MatchitNew
            ELSE merge(merged[i - 1], build_route_map(route.routes[i], p))
    IN IF is_some(route.element)
       THEN insert(MatchitNew, p)
       ELSE merged[Len(route.routes)]

\* Route::in_pattern. The unwraps inside build_route_map cannot fail here:
\* Routes::render has built and merged the same maps before it is called.
in_pattern(route, base, s) ==
    LET m == build_route_map(route, base)
    IN ~m.err /\ at(m, s).ok

\* Iterator::find over the routes: the position of the first route whose
\* patterns match, 0 when there is none.
find(rs, base, s) ==
    LET hits == {i \in 1..Len(rs) : in_pattern(rs[i], base, s)}
    IN IF hits = {} THEN 0 ELSE CHOOSE i \in hits : \A j \in hits : i <= j

\* Elements: Empty, what an element factory returns, a rendered layout with
\* what was put in its outlet.
EmptyElement == [kind |-> "empty", id |-> 0, outlet |-> None]
FactoryElement(f) == [kind |-> "element", id |-> f, outlet |-> None]
LayoutElement(l, o) == [kind |-> "layout", id |-> l, outlet |-> o]

RECURSIVE Route_render(_, _)

\* Faulty Route::render: render_layout is called before the child is put in
\* the outlet, so the rendered layout shows an empty outlet.
Route_render_layout_first(route, s) ==
    IF is_some(route.element)
    THEN [out |-> FactoryElement(unwrap(route.element)),
          invoked |-> <<unwrap(route.element)>>]
    ELSE IF is_some(route.layout)
    THEN LET b == trim_end_matches(route.basename)
             base == IF is_some(route.path)
                     THEN format_slash(b, unwrap(route.path))
                     ELSE b
             i == find(route.routes, base, s)
         IN [out |-> LayoutElement(unwrap(route.layout), None),
             invoked |-> IF i # 0
                         THEN Route_render(
                                 with_basename(route.routes[i], base), s).invoked
                         ELSE <<>>]
    ELSE [out |-> EmptyElement, invoked |-> <<>>]

\* impl RenderOnce for Route. LayoutElement(l, o) is what render_layout
\* returns for the layout l when it is called with o in the outlet: a child
\* shows in the rendered layout only if outlet was called before
\* render_layout.
Route_render(route, s) ==
    IF is_some(route.element)
    THEN [out |-> FactoryElement(unwrap(route.element)),
          invoked |-> <<unwrap(route.element)>>]
    ELSE IF is_some(route.layout)
    THEN LET b == trim_end_matches(route.basename)
             base == IF is_some(route.path)
                     THEN format_slash(b, unwrap(route.path))
                     ELSE b
             i == find(route.routes, base, s)
         IN IF i # 0
            THEN LET r == Route_render(with_basename(route.routes[i], base), s)
                 IN [out |-> LayoutElement(unwrap(route.layout), Some(r.out)),
                     invoked |-> r.invoked]
            ELSE [out |-> LayoutElement(unwrap(route.layout), None),
                  invoked |-> <<>>]
    ELSE [out |-> EmptyElement, invoked |-> <<>>]

\* HashMap::insert of the matched parameters, one after the other. The map
\* is held as its set of (key, value) pairs.
RECURSIVE InsertAll(_, _)
InsertAll(map, kvs) ==
    IF kvs = <<>> THEN map
    ELSE InsertAll({kv \in map : kv[1] # Head(kvs)[1]} \cup {Head(kvs)},
                   Tail(kvs))

\* The merge loop of Routes::render.
RoutesMap(rs, base) ==
    LET merged[i \in 0..Len(rs)] ==
            IF i = 0 THEN MatchitNew
            ELSE merge(merged[i - 1], build_route_map(rs[i], base))
    IN merged[Len(rs)]

\* Faulty Routes::render: every route is rendered before the match is looked
\* up, so every factory reachable from a route is called.
Routes_render_eager(rs, base, s, ps) ==
    LET m == RoutesMap(rs, base)
        matched == at(m, s)
        i == IF matched.ok THEN find(rs, base, s) ELSE 0
        all[k \in 0..Len(rs)] ==
            IF k = 0 THEN <<>>
            ELSE all[k - 1] \o Route_render(with_basename(rs[k], base), s).invoked
        r == IF i # 0 THEN Route_render(with_basename(rs[i], base), s)
             ELSE [out |-> EmptyElement, invoked |-> <<>>]
    IN [panic |-> m.err,
        params |-> IF matched.ok THEN InsertAll(ps, matched.params) ELSE ps,
        out |-> r.out,
        invoked |-> all[Len(rs)]]

\* impl RenderOnce for Routes, followed by the render of the Route element
\* it returns (the framework renders the returned element in the same pass).
Routes_render(rs, base, s, ps) ==
    LET m == RoutesMap(rs, base)
        matched == at(m, s)
        i == IF matched.ok THEN find(rs, base, s) ELSE 0
        r == IF i # 0 THEN Route_render(with_basename(rs[i], base), s)
             ELSE [out |-> EmptyElement, invoked |-> <<>>]
    IN [panic |-> m.err,
        params |-> IF matched.ok THEN InsertAll(ps, matched.params) ELSE ps,
        out |-> r.out,
        invoked |-> r.invoked]

\* RouterState::init
RouterState_init ==
    [pathname |-> Slash, path_match |-> None, params |-> {}]

RouterStart ==
    /\ debug \in BOOLEAN
    /\ pathname = RouterState_init.pathname
    /\ params = RouterState_init.params
    /\ phase = "idle"
    /\ basename = Slash
    /\ routes = <<>>
    /\ building = <<>>
    /\ invoked = <<>>
    /\ output = EmptyElement
    /\ panicMsg = ""
    /\ lastNavigate = None

\* A variant of use_navigate whose closure strips the trailing slashes of
\* the path before it stores it.
use_navigate_trimmed(state, to) ==
    [state EXCEPT !.pathname = trim_end_matches(to)]

\* use_navigate: the returned closure stores its argument as the pathname
\* of the global RouterState.
use_navigate(state, to) ==
    [state EXCEPT !.pathname = to]

\* The closure returned by use_navigate, called from an event handler
\* between two render passes.
Navigate ==
    \E s \in Pathnames :
        /\ phase \in {"idle", "rendered"}
        /\ LET state == use_navigate([pathname |-> pathname,
                                      params |-> params], s)
           IN /\ pathname' = state.pathname
              /\ params' = state.params
        /\ lastNavigate' = Some(s)
        /\ UNCHANGED <<debug, phase, basename, routes, building,
                       invoked, output, panicMsg>>

\* Routes::new(): the render function of the view that holds the routes runs
\* for the first time and starts building its Routes value.
RoutesNew ==
    /\ phase = "idle"
    /\ phase' = "build"
    /\ basename' = Slash
    /\ routes' = <<>>
    /\ building' = <<>>
    /\ invoked' = <<>>
    /\ output' = EmptyElement
    /\ UNCHANGED <<lastNavigate, debug, pathname, params, panicMsg>>

\* Routes::basename
RoutesBasename ==
    \E b \in BasenameArgs :
        /\ phase = "build"
        /\ building = <<>>
        /\ routes = <<>>
        /\ basename' = b
        /\ UNCHANGED <<lastNavigate, debug, pathname, params, phase, routes, building,
                       invoked, output, panicMsg>>

\* The Route values a route holds: itself and its descendants.
RECURSIVE Size(_)
Size(route) ==
    LET sum[i \in 0..Len(route.routes)] ==
            IF i = 0 THEN 1 ELSE sum[i - 1] + Size(route.routes[i])
    IN sum[Len(route.routes)]

\* Route::new() calls made so far.
RoutesCreated ==
    LET done[i \in 0..Len(routes)] ==
            IF i = 0 THEN 0 ELSE done[i - 1] + Size(routes[i])
        open[i \in 0..Len(building)] ==
            IF i = 0 THEN 0 ELSE open[i - 1] + Size(building[i])
    IN done[Len(routes)] + open[Len(building)]

Top == building[Len(building)]

SetTop(r) == [building EXCEPT ![Len(building)] = r]

\* The closure or layout value handed to the route being built is named by
\* the number of that route among the Route::new() calls of the view (a
\* box that a second call on the same route replaces is dropped uncalled).
TopBox == RoutesCreated - Size(Top) + 1

\* Route::new()
RouteNew ==
    /\ phase = "build"
    /\ Len(building) < MaxNest
    /\ RoutesCreated < MaxRoutes
    /\ building' = Append(building, DefaultRoute)
    /\ UNCHANGED <<lastNavigate, debug, pathname, params, phase, basename, routes,
                   invoked, output, panicMsg>>

\* Route::path on the route being built
RoutePath ==
    \E p \in PathArgs :
        /\ phase = "build"
        /\ building # <<>>
        /\ building' = SetTop(path(Top, p))
        /\ UNCHANGED <<lastNavigate, debug, pathname, params, phase, basename, routes,
                       invoked, output, panicMsg>>

\* The outcome of a builder method that may panic.
Built(r) ==
    /\ phase' = IF r.panic # "" THEN "panicked" ELSE "build"
    /\ panicMsg' = r.panic
    /\ building' = SetTop(r.route)
    /\ UNCHANGED <<lastNavigate, debug, pathname, params, basename, routes, invoked, output>>

\* Route::element on the route being built, with a new closure
RouteElement ==
    /\ phase = "build"
    /\ building # <<>>
    /\ Built(element(Top, TopBox, debug))

\* Route::layout on the route being built, with a new layout value
RouteLayout ==
    /\ phase = "build"
    /\ building # <<>>
    /\ Built(layout(Top, TopBox, debug))

\* Route::index on the route being built
RouteIndex ==
    /\ phase = "build"
    /\ building # <<>>
    /\ Built(index(Top, debug))

\* Route::child: the finished inner route becomes a child of the one that
\* was being built around it.
RouteChild ==
    /\ phase = "build"
    /\ Len(building) >= 2
    /\ building' = [Front(building) EXCEPT
                        ![Len(building) - 1] = child(@, Top)]
    /\ UNCHANGED <<lastNavigate, debug, pathname, params, phase, basename, routes,
                   invoked, output, panicMsg>>

\* Routes::child: the finished route is added to the Routes value.
RoutesChild ==
    /\ phase = "build"
    /\ Len(building) = 1
    /\ routes' = Append(routes, Top)
    /\ building' = <<>>
    /\ UNCHANGED <<lastNavigate, debug, pathname, params, phase, basename,
                   invoked, output, panicMsg>>

\* A render pass. The view's render function has built its Routes value
\* (in later frames it builds the same value again, the closures and layouts
\* being new boxes of the same code), and Routes::render and the render of
\* the Route element it returns run. invoked lists the factories this pass
\* called.
RenderPass ==
    /\ \/ phase = "build" /\ building = <<>>
       \/ phase = "rendered"
    /\ LET r == Routes_render(routes, basename, pathname, params)
       IN IF r.panic
          THEN /\ phase' = "panicked"
               /\ panicMsg' = UnwrapMsg
               /\ UNCHANGED <<params, invoked, output>>
          ELSE /\ phase' = "rendered"
               /\ params' = r.params
               /\ invoked' = r.invoked
               /\ output' = r.out
               /\ UNCHANGED panicMsg
    /\ UNCHANGED <<lastNavigate, debug, pathname, basename, routes, building>>

(***************************************************************************)
(* A Route rendered as an element of its own (Route is IntoElement): the   *)
(* view holds one layout route with leaf children and renders it directly. *)
(***************************************************************************)

\* Number of children of the layout route.
MaxChildren == 2

\* Route::new().path(p).element(f), or Route::new().index().element(f)
\* when p is "".
LeafRoute(p, f) ==
    LET r == IF p = EmptyStr THEN index(DefaultRoute, TRUE).route
             ELSE path(DefaultRoute, p)
    IN element(r, f, TRUE).route

\* Route::new()[.path(p)].layout(1).child(leaf 2).child(leaf 3)...
LayoutRoute(lp, cps) ==
    LET root == layout(IF is_some(lp) THEN path(DefaultRoute, unwrap(lp))
                       ELSE DefaultRoute, 1, TRUE).route
        added[k \in 0..Len(cps)] ==
            IF k = 0 THEN root
            ELSE child(added[k - 1], LeafRoute(cps[k], k + 1))
    IN added[Len(cps)]

LayoutRoutes ==
    {LayoutRoute(lp, cps) :
        lp \in {None} \cup {Some(p) : p \in PathArgs},
        cps \in UNION {[1..k -> PathArgs \cup {EmptyStr}] :
                          k \in 0..MaxChildren}}

\* Does Route::render panic: in_pattern unwraps the result of the insert
\* into the map of each child that find looks at, in order, up to the first
\* child that matches.
RECURSIVE Route_render_panics(_, _)
Route_render_panics(route, s) ==
    IF is_some(route.element) \/ ~is_some(route.layout) THEN FALSE
    ELSE LET b == trim_end_matches(route.basename)
             base == IF is_some(route.path)
                     THEN format_slash(b, unwrap(route.path))
                     ELSE b
             i == find(route.routes, base, s)
             seen == IF i = 0 THEN Len(route.routes) ELSE i
         IN \/ \E j \in 1..seen : build_route_map(route.routes[j], base).err
            \/ /\ i # 0
               /\ Route_render_panics(with_basename(route.routes[i], base), s)

LayoutStart ==
    /\ debug = TRUE
    /\ pathname = RouterState_init.pathname
    /\ params = RouterState_init.params
    /\ phase = "build"
    /\ basename = Slash
    /\ routes \in {<<r>> : r \in LayoutRoutes}
    /\ building = <<>>
    /\ invoked = <<>>
    /\ output = EmptyElement
    /\ panicMsg = ""
    /\ lastNavigate = None

\* A render pass of the view: Route::render of the route it holds.
RouteRender ==
    /\ phase \in {"build", "rendered"}
    /\ building = <<>>
    /\ Len(routes) = 1
    /\ IF Route_render_panics(routes[1], pathname)
       THEN /\ phase' = "panicked"
            /\ panicMsg' = UnwrapMsg
            /\ UNCHANGED <<invoked, output>>
       ELSE LET r == Route_render(routes[1], pathname)
            IN /\ phase' = "rendered"
               /\ invoked' = r.invoked
               /\ output' = r.out
               /\ UNCHANGED panicMsg
    /\ UNCHANGED <<lastNavigate, debug, pathname, params, basename, routes,
                   building>>

(***************************************************************************)
(* Part III. Settings (crates/gpui/src/app/states/settings_state.rs) and   *)
(* the handlers of the settings window and of the title bar. f32 values    *)
(* are held in tenths: 14.0 is 140, 0.5 is 5.                              *)
(***************************************************************************)

\* fn default_*()
default_ui_font_size == 140
default_editor_font_size == 160
default_zoom == 10
default_h1_font_size == 300
default_h2_font_size == 240
default_h3_font_size == 200
default_text_font_size == 160

\* enum ThemeMode and ThemeMode::next
ThemeModes == {"Light", "Dark", "System"}

ThemeMode_next(m) ==
    IF m = "Light" THEN "Dark" ELSE IF m = "Dark" THEN "System" ELSE "Light"

\* Names of installed themes the dropdown lists.
ThemeNames == {"Default Light", "Default Dark"}

\* Ids of the block switches (NODE_COMPONENTS, HEADING_LEVELS).
SwitchIds == {"heading_2"}

\* Keys on_block_font_size_changed is bound to.
BlockKeys == {"heading_1", "heading_2", "heading_3", "text"}

\* Texts of a number input, and str::parse::<f32> of them.
InputTexts == {"abc", "0.4", "80"}

parse_f32(text) ==
    IF text = "0.4" THEN Some(4) ELSE IF text = "80" THEN Some(800) ELSE None

\* f32::clamp
clamp(x, lo, hi) == IF x < lo THEN lo ELSE IF x > hi THEN hi ELSE x

\* impl Default for Settings
Settings_default ==
    [contexts |-> <<>>,
     theme |-> [light |-> "Default Light", dark |-> "Default Dark",
                mode |-> "System"],
     appearance |-> [ui_font_size |-> default_ui_font_size],
     editor |-> [font_size |-> default_editor_font_size,
                 zoom |-> default_zoom,
                 disabled_blocks |-> <<>>,
                 block_font_sizes |-> [heading_1 |-> default_h1_font_size,
                                       heading_2 |-> default_h2_font_size,
                                       heading_3 |-> default_h3_font_size,
                                       text |-> default_text_font_size]]]

\* serde_json::to_string_pretty(self): the fields under their names, the
\* theme mode in lower case (#[serde(rename_all = "lowercase")]).
to_json(s) ==
    [s EXCEPT !.theme.mode = IF @ = "Light" THEN "light"
                             ELSE IF @ = "Dark" THEN "dark" ELSE "system"]

\* The global Settings together with the file Settings::save writes, as one
\* value the handlers below transform.
SettingsState == [settings |-> settings, saved |-> saved]

\* Settings::save
Settings_save(st) == [st EXCEPT !.saved = Some(to_json(st.settings))]

\* Vec::retain(|b| b != id)
RECURSIVE retain_ne(_, _)
retain_ne(v, id) ==
    IF v = <<>> THEN v
    ELSE IF Head(v) = id THEN retain_ne(Tail(v), id)
    ELSE <<Head(v)>> \o retain_ne(Tail(v), id)

\* SettingsWindow::on_ui_font_size_changed
on_ui_font_size_changed(st, text) ==
    IF is_some(parse_f32(text))
    THEN Settings_save([st EXCEPT !.settings.appearance.ui_font_size =
                            clamp(unwrap(parse_f32(text)), 100, 240)])
    ELSE st

\* SettingsWindow::on_editor_font_size_changed
on_editor_font_size_changed(st, text) ==
    IF is_some(parse_f32(text))
    THEN Settings_save([st EXCEPT !.settings.editor.font_size =
                            clamp(unwrap(parse_f32(text)), 100, 320)])
    ELSE st

\* SettingsWindow::on_zoom_changed
on_zoom_changed(st, text) ==
    IF is_some(parse_f32(text))
    THEN Settings_save([st EXCEPT !.settings.editor.zoom =
                            clamp(unwrap(parse_f32(text)), 5, 20)])
    ELSE st

\* SettingsWindow::on_block_font_size_changed
on_block_font_size_changed(st, block_key, text) ==
    IF is_some(parse_f32(text))
    THEN Settings_save(
           [st EXCEPT !.settings.editor.block_font_sizes[block_key] =
                clamp(unwrap(parse_f32(text)), 80, 720)])
    ELSE st

\* The click handler of render_theme_mode_toggle(shown).
theme_mode_toggle(st, shown) ==
    Settings_save([st EXCEPT !.settings.theme.mode = ThemeMode_next(shown)])

\* The click handler of a row of the theme dropdown.
theme_select(st, is_dark, name) ==
    Settings_save(IF is_dark THEN [st EXCEPT !.settings.theme.dark = name]
                  ELSE [st EXCEPT !.settings.theme.light = name])

\* The click handler of a block switch; checked is the switch's new value.
block_switch(st, id, checked) ==
    Settings_save(
        IF checked
        THEN [st EXCEPT !.settings.editor.disabled_blocks = retain_ne(@, id)]
        ELSE [st EXCEPT !.settings.editor.disabled_blocks = Append(@, id)])

\* crate::app::apply_theme: reads the theme settings and sets the theme of
\* the window; the settings and their file are left as they are.
apply_theme(st) == st

\* TitleBar::cycle_theme_mode
cycle_theme_mode(st) ==
    apply_theme([st EXCEPT !.settings.theme.mode = ThemeMode_next(@)])

\* The application has loaded its settings; nothing was saved in this run.
SettingsStart ==
    /\ settings = Settings_default
    /\ saved = None

Apply(st) ==
    /\ settings' = st.settings
    /\ saved' = st.saved

OnUiFontSizeChanged ==
    \E text \in InputTexts : Apply(on_ui_font_size_changed(SettingsState, text))

OnEditorFontSizeChanged ==
    \E text \in InputTexts :
        Apply(on_editor_font_size_changed(SettingsState, text))

OnZoomChanged ==
    \E text \in InputTexts : Apply(on_zoom_changed(SettingsState, text))

OnBlockFontSizeChanged ==
    \E block_key \in BlockKeys, text \in InputTexts :
        Apply(on_block_font_size_changed(SettingsState, block_key, text))

\* shown is the theme mode the settings window was last rendered with
\* (the argument current of render_theme_mode_toggle).
ThemeModeToggle ==
    \E shown \in ThemeModes : Apply(theme_mode_toggle(SettingsState, shown))

ThemeSelect ==
    \E is_dark \in BOOLEAN, name \in ThemeNames :
        Apply(theme_select(SettingsState, is_dark, name))

\* A click turns the switch over: it was rendered checked when the block
\* was not in disabled_blocks.
BlockSwitch ==
    \E id \in SwitchIds :
        LET is_enabled ==
                \A k \in DOMAIN settings.editor.disabled_blocks :
                    settings.editor.disabled_blocks[k] # id
        IN Apply(block_switch(SettingsState, id, ~is_enabled))

CycleThemeMode == Apply(cycle_theme_mode(SettingsState))

(***************************************************************************)
(* Part IV. DocumentState (crates/gpui/src/app/states/document_state.rs).  *)
(* A Document is its uid and its renderer (None, or Some(uid): the entity  *)
(* created for it); an Instant is a natural number.                        *)
(***************************************************************************)

\* Number of mark_changed calls in one run.
MaxCalls == 2

\* Document ids of the database.
Uids == {1, 2}

\* The DocumentState value the methods below transform, with the spawned
\* tasks and the update_document calls they issued.
DocState ==
    [documents |-> documents,
     current_opened_document |-> current_opened_document,
     persistence |-> persistence,
     last_change |-> last_change,
     pending_notification |-> pending_notification,
     timers |-> timers,
     issued |-> issued]

\* impl Default for DocumentState
DocumentState_default ==
    [documents |-> <<>>,
     current_opened_document |-> None,
     persistence |-> "Idle",
     last_change |-> None,
     pending_notification |-> FALSE,
     timers |-> <<>>,
     issued |-> <<>>]

\* self.documents.iter().any(|doc| doc.uid == id)
has_document(st, id) ==
    \E k \in DOMAIN st.documents : st.documents[k].uid = id

\* DocumentState::add_document: pushes the id of a known document on
\* opened_document_ids, a list that nothing reads and that is left out of
\* the state here.
add_document(st, id) ==
    IF has_document(st, id) THEN st ELSE st

\* DocumentState::add_document_and_focus
add_document_and_focus(st, id) ==
    [add_document(st, id) EXCEPT !.current_opened_document = Some(id)]

\* DocumentState::add_persisted_document
add_persisted_document(st, uid) ==
    IF ~has_document(st, uid)
    THEN [st EXCEPT !.documents = Append(@, [uid |-> uid, renderer |-> None])]
    ELSE st

\* DocumentState::ensure_renderer_for
ensure_renderer_for(st, uid) ==
    [st EXCEPT !.documents =
        [k \in DOMAIN @ |->
            IF @[k].uid = uid /\ ~is_some(@[k].renderer)
            THEN [@[k] EXCEPT !.renderer = Some(uid)]
            ELSE @[k]]]

\* DocumentState::remove_document
remove_document(st, uid) ==
    [st EXCEPT !.documents = SelectSeq(@, LAMBDA d : d.uid # uid)]

\* DocumentState::mark_changed, up to the spawn of the task: the task
\* captures the trigger time and the first document whose uid is the
\* current one, renderer included.
mark_changed(st, trigger_time) ==
    LET hits == {k \in DOMAIN st.documents :
                    Some(st.documents[k].uid) = st.current_opened_document}
        st1 == [st EXCEPT !.persistence = "Pending",
                          !.last_change = Some(trigger_time)]
    IN IF hits = {} THEN st1
       ELSE LET document ==
                    st.documents[CHOOSE k \in hits : \A j \in hits : k <= j]
            IN [st1 EXCEPT !.timers =
                    Append(@, [trigger_time |-> trigger_time,
                               uid |-> document.uid,
                               renderer |-> document.renderer,
                               fired |-> FALSE])]

\* Faulty task: last_change is not compared with the trigger time, every
\* timer saves.
timer_fires_always(st, k) ==
    LET tm == st.timers[k]
        idle == [st EXCEPT !.timers[k].fired = TRUE,
                           !.persistence = "Idle",
                           !.pending_notification = TRUE]
    IN IF is_some(tm.renderer)
       THEN [idle EXCEPT !.issued =
                Append(@, [id |-> tm.uid, trigger_time |-> tm.trigger_time])]
       ELSE idle

\* The task of mark_changed after its sleep: the closure it passes to
\* update_global, for the k-th spawned task.
timer_fires(st, k) ==
    LET tm == st.timers[k]
        st1 == [st EXCEPT !.timers[k].fired = TRUE]
        idle == [st1 EXCEPT !.persistence = "Idle",
                            !.pending_notification = TRUE]
    IN IF is_some(st.last_change)
       THEN IF unwrap(st.last_change) <= tm.trigger_time
            THEN IF is_some(tm.renderer)
                 THEN [idle EXCEPT !.issued =
                          Append(@, [id |-> tm.uid,
                                     trigger_time |-> tm.trigger_time])]
                 ELSE idle
            ELSE st1
       ELSE idle

DocumentStart ==
    /\ documents = DocumentState_default.documents
    /\ current_opened_document = DocumentState_default.current_opened_document
    /\ persistence = DocumentState_default.persistence
    /\ last_change = DocumentState_default.last_change
    /\ pending_notification = DocumentState_default.pending_notification
    /\ now = 0
    /\ timers = DocumentState_default.timers
    /\ issued = DocumentState_default.issued
    /\ lateCall = FALSE

ApplyDoc(st) ==
    /\ documents' = st.documents
    /\ current_opened_document' = st.current_opened_document
    /\ persistence' = st.persistence
    /\ last_change' = st.last_change
    /\ pending_notification' = st.pending_notification
    /\ timers' = st.timers
    /\ issued' = st.issued

AddPersistedDocument ==
    \E uid \in Uids :
        /\ ApplyDoc(add_persisted_document(DocState, uid))
        /\ UNCHANGED <<now, lateCall>>

EnsureRendererFor ==
    \E uid \in Uids :
        /\ ApplyDoc(ensure_renderer_for(DocState, uid))
        /\ UNCHANGED <<now, lateCall>>

RemoveDocument ==
    \E uid \in Uids :
        /\ ApplyDoc(remove_document(DocState, uid))
        /\ UNCHANGED <<now, lateCall>>

AddDocumentAndFocus ==
    \E id \in Uids :
        /\ ApplyDoc(add_document_and_focus(DocState, id))
        /\ UNCHANGED <<now, lateCall>>

\* A text node reports a change. Instant::now() never goes back; two calls
\* may read the same instant.
MarkChanged ==
    \E trigger_time \in {now, now + 1} :
        /\ Len(timers) < MaxCalls
        /\ trigger_time <= MaxCalls
        /\ now' = trigger_time
        /\ ApplyDoc(mark_changed(DocState, trigger_time))
        /\ lateCall' = (lateCall \/ \E k \in DOMAIN timers : timers[k].fired)

\* The sleep of a spawned task is over and the executor runs the task.
TimerFires ==
    \E k \in DOMAIN timers :
        /\ ~timers[k].fired
        /\ ApplyDoc(timer_fires(DocState, k))
        /\ UNCHANGED <<now, lateCall>>

(***************************************************************************)
(* Part V. FolderRepository                                                *)
(* (crates/gpui/src/infrastructure/repositories/folder_repository.rs) and  *)
(* the document queries that set folder_id. A table is the function from   *)
(* the ids of its rows to the other columns; a Result is a record with     *)
(* ret "ok" or "err". Every call is awaited to its end by its caller and   *)
(* is one step here.                                                       *)
(***************************************************************************)

\* Largest row id of the folders table, and of the documents table.
MaxFolders == 4
MaxDocs == 1

MAX_FOLDER_DEPTH == 3

FolderIds == 1..MaxFolders
DocIds == 1..MaxDocs

\* The two tables as one value the queries below transform.
Db == [folders |-> folders, documents |-> docRows]

\* INSERT: the new row gets the rowid after the largest one in the table.
last_insert_rowid(table) ==
    IF DOMAIN table = {} THEN 1
    ELSE 1 + CHOOSE i \in DOMAIN table : \A j \in DOMAIN table : j <= i

InsertRow(table, row) ==
    [i \in DOMAIN table \cup {last_insert_rowid(table)} |->
        IF i \in DOMAIN table THEN table[i] ELSE row]

DeleteRow(table, id) == [i \in DOMAIN table \ {id} |-> table[i]]

\* FolderRepository::get_folder_by_id: fetch_one fails when no row has the
\* id.
get_folder_by_id(db, id) ==
    IF id \in DOMAIN db.folders
    THEN [ret |-> "ok", folder |-> db.folders[id]]
    ELSE [ret |-> "err", folder |-> [name |-> "", parent_id |-> None]]

\* FolderRepository::compute_depth: walks up the parent chain, one query
\* per folder. steps counts the folders visited; on a chain that comes
\* back to a folder it has visited the loop never ends ("hang").
RECURSIVE compute_depth_from(_, _, _, _)
compute_depth_from(db, current_id, depth, steps) ==
    LET r == get_folder_by_id(db, current_id)
    IN IF r.ret = "err" THEN [ret |-> "err", depth |-> depth]
       ELSE IF ~is_some(r.folder.parent_id)
       THEN [ret |-> "ok", depth |-> depth]
       ELSE IF steps > Cardinality(DOMAIN db.folders)
       THEN [ret |-> "hang", depth |-> depth]
       ELSE compute_depth_from(db, unwrap(r.folder.parent_id), depth + 1,
                               steps + 1)

compute_depth(db, folder_id) == compute_depth_from(db, folder_id, 1, 1)

\* Faulty insert_folder: the depth of the parent is compared with >.
insert_folder_off_by_one(db, name, parent_id) ==
    LET d == IF is_some(parent_id) THEN compute_depth(db, unwrap(parent_id))
             ELSE [ret |-> "ok", depth |-> 0]
    IN IF d.ret # "ok" THEN [ret |-> d.ret, id |-> 0, db |-> db]
       ELSE IF is_some(parent_id) /\ d.depth > MAX_FOLDER_DEPTH
       THEN [ret |-> "err", id |-> 0, db |-> db]
       ELSE [ret |-> "ok",
             id |-> last_insert_rowid(db.folders),
             db |-> [db EXCEPT !.folders =
                        InsertRow(@, [name |-> name, parent_id |-> parent_id])]]

\* FolderRepository::insert_folder
insert_folder(db, name, parent_id) ==
    LET d == IF is_some(parent_id) THEN compute_depth(db, unwrap(parent_id))
             ELSE [ret |-> "ok", depth |-> 0]
    IN IF d.ret # "ok" THEN [ret |-> d.ret, id |-> 0, db |-> db]
       ELSE IF is_some(parent_id) /\ d.depth >= MAX_FOLDER_DEPTH
       THEN [ret |-> "err", id |-> 0, db |-> db]
       ELSE [ret |-> "ok",
             id |-> last_insert_rowid(db.folders),
             db |-> [db EXCEPT !.folders =
                        InsertRow(@, [name |-> name, parent_id |-> parent_id])]]

\* FolderRepository::move_folder: an UPDATE that matches no row succeeds.
move_folder(db, id, new_parent_id) ==
    LET d == IF is_some(new_parent_id)
             THEN compute_depth(db, unwrap(new_parent_id))
             ELSE [ret |-> "ok", depth |-> 0]
    IN IF d.ret # "ok" THEN [ret |-> d.ret, db |-> db]
       ELSE IF is_some(new_parent_id) /\ d.depth >= MAX_FOLDER_DEPTH
       THEN [ret |-> "err", db |-> db]
       ELSE [ret |-> "ok",
             db |-> [db EXCEPT !.folders =
                        [i \in DOMAIN @ |->
                            IF i = id
                            THEN [@[i] EXCEPT !.parent_id = new_parent_id]
                            ELSE @[i]]]]

\* FolderRepository::delete_folder
delete_folder(db, id) ==
    [ret |-> "ok", db |-> [db EXCEPT !.folders = DeleteRow(@, id)]]

\* Faulty delete_folder_keep_children: the documents are not reparented.
delete_folder_keep_folders_only(db, id) ==
    LET r == get_folder_by_id(db, id)
        new_parent == r.folder.parent_id
        moved == [db EXCEPT !.folders =
                     [i \in DOMAIN @ |->
                         IF @[i].parent_id = Some(id)
                         THEN [@[i] EXCEPT !.parent_id = new_parent]
                         ELSE @[i]]]
    IN IF r.ret = "err" THEN [ret |-> "err", db |-> db]
       ELSE delete_folder(moved, id)

\* FolderRepository::delete_folder_keep_children
delete_folder_keep_children(db, id) ==
    LET r == get_folder_by_id(db, id)
        new_parent == r.folder.parent_id
        moved == [db EXCEPT !.folders =
                     [i \in DOMAIN @ |->
                         IF @[i].parent_id = Some(id)
                         THEN [@[i] EXCEPT !.parent_id = new_parent]
                         ELSE @[i]],
                            !.documents =
                     [i \in DOMAIN @ |->
                         IF @[i].folder_id = Some(id)
                         THEN [@[i] EXCEPT !.folder_id = new_parent]
                         ELSE @[i]]]
    IN IF r.ret = "err" THEN [ret |-> "err", db |-> db]
       ELSE delete_folder(moved, id)

\* DocumentRepository::insert_document
insert_document(db, folder_id) ==
    [ret |-> "ok",
     db |-> [db EXCEPT !.documents = InsertRow(@, [folder_id |-> folder_id])]]

\* DocumentRepository::move_document
move_document(db, id, folder_id) ==
    [ret |-> "ok",
     db |-> [db EXCEPT !.documents =
                [i \in DOMAIN @ |->
                    IF i = id THEN [@[i] EXCEPT !.folder_id = folder_id]
                    ELSE @[i]]]]

\* Option<i32> arguments that name a folder.
FolderArgs == {None} \cup {Some(i) : i \in FolderIds}

FolderCalled(op, id, parent_id, ret, newId) ==
    [op |-> op, id |-> id, parent_id |-> parent_id, ret |-> ret,
     newId |-> newId, pre |-> Db]

\* An empty database.
FolderStart ==
    /\ folders = <<>>
    /\ docRows = <<>>
    /\ folderCall = [op |-> "none", id |-> 0, parent_id |-> None,
                     ret |-> "ok", newId |-> 0,
                     pre |-> [folders |-> <<>>, documents |-> <<>>]]

ApplyDb(db) ==
    /\ folders' = db.folders
    /\ docRows' = db.documents

InsertFolder ==
    \E parent_id \in FolderArgs :
        LET r == insert_folder(Db, "Untitled", parent_id)
        IN /\ r.ret = "ok" => r.id <= MaxFolders
           /\ ApplyDb(r.db)
           /\ folderCall' =
                  FolderCalled("insert_folder", 0, parent_id, r.ret, r.id)

MoveFolder ==
    \E id \in FolderIds, new_parent_id \in FolderArgs :
        LET r == move_folder(Db, id, new_parent_id)
        IN /\ ApplyDb(r.db)
           /\ folderCall' =
                  FolderCalled("move_folder", id, new_parent_id, r.ret, 0)

DeleteFolderKeepChildren ==
    \E id \in FolderIds :
        LET r == delete_folder_keep_children(Db, id)
        IN /\ ApplyDb(r.db)
           /\ folderCall' =
                  FolderCalled("delete_folder_keep_children", id, None,
                               r.ret, 0)

\* The sidebar creates a document at the root or in a folder it shows.
InsertDocument ==
    \E folder_id \in {None} \cup {Some(i) : i \in DOMAIN folders} :
        LET r == insert_document(Db, folder_id)
        IN /\ last_insert_rowid(docRows) <= MaxDocs
           /\ ApplyDb(r.db)
           /\ folderCall' =
                  FolderCalled("insert_document", 0, folder_id, r.ret,
                               last_insert_rowid(docRows))

\* The sidebar drops a document it shows on the root or on a folder.
MoveDocument ==
    \E id \in DOMAIN docRows :
        \E folder_id \in {None} \cup {Some(i) : i \in DOMAIN folders} :
            LET r == move_document(Db, id, folder_id)
            IN /\ ApplyDb(r.db)
               /\ folderCall' =
                      FolderCalled("move_document", id, folder_id, r.ret, 0)

(***************************************************************************)
(* Part VI. TextNode                                                       *)
(* (crates/gpui/src/app/components/nodes/text/text_node.rs): one text      *)
(* block of the editor, its input field, its slash menu and the NodeState  *)
(* that lists the blocks of the document. A string is the sequence of its  *)
(* characters.                                                             *)
(***************************************************************************)

\* Number of nodes the NodeState holds in one run.
MaxNodes == 3

\* Uuid of the text node whose handlers are modelled.
TextNodeId == 1

\* Values the input field takes.
InputValues == {<<>>, <<"a">>, <<"a", "/">>, <<" ">>}

\* Kinds of RemindrElement.
NodeKinds == {"Text", "Heading", "Divider"}

\* str::ends_with(char)
ends_with(str, c) == Len(str) > 0 /\ str[Len(str)] = c

\* str::trim: white space is removed at both ends.
RECURSIVE trim(_)
trim(str) ==
    IF Len(str) = 0 THEN str
    ELSE IF Head(str) = " " THEN trim(Tail(str))
    ELSE IF str[Len(str)] = " " THEN trim(SubSeq(str, 1, Len(str) - 1))
    ELSE str

\* TextualNodeEvent
Event(kind) == [kind |-> kind, content |-> <<>>]
Change(content) == [kind |-> "Change", content |-> content]

\* The TextNode with the entities it owns, and the global DocumentState.
TextNode ==
    [content |-> text_content,
     input_value |-> input_value,
     is_focus |-> is_focus,
     menu_open |-> menu_open,
     nodes |-> nodes,
     focused_input |-> focused_input,
     emitted |-> <<>>,
     doc |-> DocState]

\* NodeState::get_previous_node
get_previous_node(ns, id) ==
    LET hits == {i \in DOMAIN ns : ns[i].id = id}
    IN IF hits = {} THEN None
       ELSE LET i == CHOOSE k \in hits : \A j \in hits : k <= j
            IN IF i = 1 THEN None ELSE Some(ns[i - 1])

\* NodeState::remove_node
remove_node(ns, id) == SelectSeq(ns, LAMBDA n : n.id # id)

\* NodeState::insert_node_after
insert_node_after(ns, id, node) ==
    LET hits == {i \in DOMAIN ns : ns[i].id = id}
    IN IF hits = {} THEN ns
       ELSE LET i == CHOOSE k \in hits : \A j \in hits : k <= j
            IN SubSeq(ns, 1, i) \o <<node>> \o SubSeq(ns, i + 1, Len(ns))

\* SlashMenu::set_open
set_open(node, open) == [node EXCEPT !.menu_open = open]

\* TextualNodeDelegate::on_textual_event of TextNode. fresh is the id of
\* the node that create_node makes, trigger_time what Instant::now()
\* returns in mark_changed.
on_textual_event(node, event, fresh, trigger_time) ==
    LET n1 == [node EXCEPT !.emitted = Append(@, event)]
    IN CASE event.kind = "SlashTyped" ->
                IF ~n1.menu_open THEN set_open(n1, TRUE) ELSE n1
         [] event.kind = "Empty" ->
                IF n1.nodes # <<>>
                THEN LET previous_element ==
                             get_previous_node(n1.nodes, TextNodeId)
                         n2 == [n1 EXCEPT !.nodes = remove_node(@, TextNodeId)]
                         n3 == IF /\ is_some(previous_element)
                                  /\ unwrap(previous_element).kind
                                        \in {"Text", "Heading"}
                               THEN [n2 EXCEPT !.focused_input =
                                        Some(unwrap(previous_element).id)]
                               ELSE n2
                     IN [n3 EXCEPT !.doc = mark_changed(@, trigger_time)]
                ELSE n1
         [] event.kind = "Enter" ->
                IF n1.menu_open THEN n1
                ELSE [n1 EXCEPT
                        !.input_value = trim(@),
                        !.is_focus = FALSE,
                        !.nodes = insert_node_after(
                                      @, TextNodeId,
                                      [id |-> fresh, kind |-> "Text"]),
                        !.doc = mark_changed(@, trigger_time)]
         [] event.kind = "Change" ->
                [n1 EXCEPT !.doc = mark_changed(@, trigger_time)]
         [] OTHER -> n1

\* TextualNodeDelegate::handle_focus
handle_focus(node, fresh, trigger_time) ==
    on_textual_event([node EXCEPT !.is_focus = TRUE], Event("Focus"),
                     fresh, trigger_time)

\* TextualNodeDelegate::handle_blur
handle_blur(node, fresh, trigger_time) ==
    on_textual_event([node EXCEPT !.is_focus = FALSE], Event("Blur"),
                     fresh, trigger_time)

\* TextNode::handle_input_change
handle_input_change(node, fresh, trigger_time) ==
    LET value == node.input_value
        old_text == node.content
        n1 == IF ends_with(value, "/") /\ node.is_focus
              THEN on_textual_event(node, Event("SlashTyped"), fresh,
                                    trigger_time)
              ELSE node
    IN IF Len(old_text) = 0 /\ Len(value) = 0
       THEN on_textual_event(n1, Event("Empty"), fresh, trigger_time)
       ELSE on_textual_event([n1 EXCEPT !.content = value], Change(value),
                             fresh, trigger_time)

\* The node as TextNode::parse leaves it, for a block with the given
\* content in a document with the given blocks.
TextParsed(content, blocks) ==
    /\ text_content = content
    /\ input_value = content
    /\ is_focus = FALSE
    /\ menu_open = FALSE
    /\ nodes = blocks
    /\ focused_input = None
    /\ old_content = content
    /\ emitted = <<>>

\* A new document: one empty text block.
TextStart == TextParsed(<<>>, <<[id |-> TextNodeId, kind |-> "Text"]>>)

\* A document that was loaded: the text block alone or after one other
\* block.
TextLoaded ==
    \E content \in InputValues, kind \in NodeKinds, alone \in BOOLEAN :
        TextParsed(content,
                   IF alone THEN <<[id |-> TextNodeId, kind |-> "Text"]>>
                   ELSE <<[id |-> TextNodeId + 1, kind |-> kind],
                          [id |-> TextNodeId, kind |-> "Text"]>>)

\* The node is one of the blocks of the document: its entity is alive and
\* receives the events of its input field.
TextNodeAlive == \E i \in DOMAIN nodes : nodes[i].id = TextNodeId

\* The id create_node gives the next node.
FreshNodeId ==
    LET ids == {nodes[i].id : i \in DOMAIN nodes} \cup {TextNodeId}
    IN 1 + CHOOSE m \in ids : \A i \in ids : i <= m

\* One handler of the node has run and left the node as r.
ApplyText(r) ==
    /\ text_content' = r.content
    /\ input_value' = r.input_value
    /\ is_focus' = r.is_focus
    /\ menu_open' = r.menu_open
    /\ nodes' = r.nodes
    /\ focused_input' = r.focused_input
    /\ old_content' = text_content
    /\ emitted' = r.emitted
    /\ ApplyDoc(r.doc)
    /\ now' = IF is_some(r.doc.last_change) /\ r.doc # DocState
              THEN unwrap(r.doc.last_change) ELSE now
    /\ lateCall' = (lateCall \/ (r.doc # DocState
                                 /\ \E k \in DOMAIN timers : timers[k].fired))

\* InputEvent::Focus
InputFocus ==
    \E trigger_time \in {now, now + 1} :
        /\ TextNodeAlive
        /\ trigger_time <= MaxCalls
        /\ ApplyText(handle_focus(TextNode, FreshNodeId, trigger_time))

\* InputEvent::Blur
InputBlur ==
    \E trigger_time \in {now, now + 1} :
        /\ TextNodeAlive
        /\ trigger_time <= MaxCalls
        /\ ApplyText(handle_blur(TextNode, FreshNodeId, trigger_time))

\* InputEvent::Change: the input field holds value when the subscriber
\* runs.
InputChange ==
    \E value \in InputValues, trigger_time \in {now, now + 1} :
        /\ TextNodeAlive
        /\ trigger_time <= MaxCalls
        /\ ApplyText(handle_input_change(
                         [TextNode EXCEPT !.input_value = value],
                         FreshNodeId, trigger_time))

\* InputEvent::PressEnter
InputPressEnter ==
    \E trigger_time \in {now, now + 1} :
        /\ TextNodeAlive
        /\ trigger_time <= MaxCalls
        /\ FreshNodeId <= MaxNodes
        /\ ApplyText(on_textual_event(TextNode, Event("Enter"),
                                      FreshNodeId, trigger_time))

\* The slash menu is dismissed (on_open_change of its popover).
MenuDismiss ==
    /\ TextNodeAlive
    /\ menu_open
    /\ menu_open' = FALSE
    /\ UNCHANGED <<text_content, input_value, is_focus, nodes,
                   focused_input, old_content, emitted, docVars>>

(***************************************************************************)
(* Part VII. SettingsWindow::open                                          *)
(* (crates/remindr/src/app/components/settings_dialog.rs): the static      *)
(* handle of the settings window, the windows of the application and the   *)
(* tasks that open() spawns on the foreground executor. A task has no      *)
(* await in it and runs in one step, after the call that spawned it has    *)
(* returned.                                                               *)
(***************************************************************************)

\* Number of settings windows created in one run.
MaxWindows == 5

WindowState ==
    [SETTINGS_WINDOW |-> SETTINGS_WINDOW,
     windows |-> windows,
     openTasks |-> openTasks,
     nextWindow |-> nextWindow,
     activated |-> activated]

\* SettingsWindow::open, up to the spawn of the task.
open(st) ==
    LET window_id == st.SETTINGS_WINDOW
    IN IF is_some(window_id) /\ unwrap(window_id) \in st.windows
       THEN [st EXCEPT !.activated = window_id]
       ELSE [st EXCEPT !.SETTINGS_WINDOW = None,
                       !.openTasks = @ + 1]

\* The task open() spawned: cx.open_window, the handle, activate_window.
open_task(st) ==
    LET window == st.nextWindow + 1
    IN [st EXCEPT !.openTasks = @ - 1,
                  !.nextWindow = window,
                  !.windows = @ \cup {window},
                  !.SETTINGS_WINDOW = Some(window),
                  !.activated = Some(window)]

WindowStart ==
    /\ SETTINGS_WINDOW = None
    /\ windows = {}
    /\ openTasks = 0
    /\ nextWindow = 0
    /\ activated = None

ApplyWindows(st) ==
    /\ SETTINGS_WINDOW' = st.SETTINGS_WINDOW
    /\ windows' = st.windows
    /\ openTasks' = st.openTasks
    /\ nextWindow' = st.nextWindow
    /\ activated' = st.activated

\* The settings button or menu entry calls SettingsWindow::open.
SettingsOpen ==
    LET r == open(WindowState)
    IN /\ r.openTasks + nextWindow <= MaxWindows
       /\ ApplyWindows(r)

\* The executor runs a window-creation task.
OpenTaskRuns ==
    /\ openTasks > 0
    /\ ApplyWindows(open_task(WindowState))

\* The user closes a settings window.
CloseWindow ==
    \E w \in windows :
        /\ windows' = windows \ {w}
        /\ UNCHANGED <<SETTINGS_WINDOW, openTasks, nextWindow, activated>>

(***************************************************************************)
(* Part VIII. DragController (crates/gpui/src/controllers/                 *)
(* drag_controller.rs): the blocks of the current document as a Vec of     *)
(* their ids, and the drag state of the document. Vec indices start at 0.  *)
(***************************************************************************)

\* Number of blocks of the document.
MaxElements == 3

ElementIds == 1..MaxElements

\* enum MovingElement
MovingElements == {"After", "Before"}

\* Vec::remove and Vec::insert at a 0-based index.
vec_remove(v, i) == SubSeq(v, 1, i) \o SubSeq(v, i + 2, Len(v))
vec_insert(v, i, x) == SubSeq(v, 1, i) \o <<x>> \o SubSeq(v, i + 1, Len(v))

\* position(|e| e.id == id): the 0-based index of the first block with
\* the id.
position_of(v, id) ==
    (CHOOSE i \in DOMAIN v : v[i] = id /\ \A j \in DOMAIN v : v[j] = id => i <= j)
    - 1

\* usize::saturating_sub
saturating_sub(a, b) == IF a >= b THEN a - b ELSE 0

DragController ==
    [dragging_id |-> dragging_id,
     hovered_drop_zone |-> hovered_drop_zone,
     is_dragging |-> is_dragging]

\* impl Default for DragController
DragController_default ==
    [dragging_id |-> None, hovered_drop_zone |-> None, is_dragging |-> FALSE]

\* DragController::start_drag, and the on_drag listener of the grip.
start_drag(dc, id) ==
    [dc EXCEPT !.dragging_id = Some(id), !.is_dragging = TRUE]

\* DragController::stop_drag
stop_drag(dc) ==
    [dc EXCEPT !.dragging_id = None,
               !.is_dragging = FALSE,
               !.hovered_drop_zone = None]

\* The on_drag_move listener of a block, as DragController::
\* update_hover_zone computes it; positions are in half block heights.
update_hover_zone(dc, id, mouse_y, bounds_top, bounds_height) ==
    LET middle_y == bounds_top + bounds_height \div 2
        zone == IF mouse_y < middle_y THEN "After" ELSE "Before"
    IN IF mouse_y >= bounds_top /\ mouse_y <= bounds_top + bounds_height
       THEN [dc EXCEPT !.hovered_drop_zone = Some(<<id, zone>>)]
       ELSE IF is_some(dc.hovered_drop_zone)
               /\ unwrap(dc.hovered_drop_zone)[1] = id
       THEN [dc EXCEPT !.hovered_drop_zone = None]
       ELSE dc

\* Faulty drop_element_by_index: the target index is not corrected for the
\* removal of the dragged block.
drop_element_by_index_unadjusted(dc, v, from_index, target_index, position) ==
    LET moved == v[from_index + 1]
        removed == vec_remove(v, from_index)
        final_index == clamp(target_index, 0, Len(removed))
    IN [controller |-> stop_drag(dc),
        elements |-> vec_insert(removed, final_index, moved)]

\* DragController::drop_element_by_index
drop_element_by_index(dc, v, from_index, target_index, position) ==
    LET moved == v[from_index + 1]
        removed == vec_remove(v, from_index)
        to_index ==
            CASE position = "After" ->
                    IF from_index < target_index
                    THEN saturating_sub(target_index, 1)
                    ELSE target_index
              [] position = "Before" ->
                    IF from_index >= target_index
                    THEN target_index + 1
                    ELSE target_index
        final_index == clamp(to_index, 0, Len(removed))
    IN [controller |-> stop_drag(dc),
        elements |-> vec_insert(removed, final_index, moved)]

\* DragElement::on_drop of the block with the id; dragging_id.unwrap()
\* needs a drag in progress.
DragElement_on_drop(dc, v, id, direction) ==
    LET from_id == unwrap(dc.dragging_id)
        from_index == position_of(v, from_id)
        target_index == position_of(v, id)
    IN drop_element_by_index(dc, v, from_index, target_index, direction)

DragStart ==
    /\ elements = [i \in ElementIds |-> i]
    /\ dragging_id = DragController_default.dragging_id
    /\ hovered_drop_zone = DragController_default.hovered_drop_zone
    /\ is_dragging = DragController_default.is_dragging
    /\ dropCall = [op |-> "none", from_index |-> 0, target_index |-> 0,
                   position |-> "After", pre |-> <<>>]

ApplyDrag(dc) ==
    /\ dragging_id' = dc.dragging_id
    /\ hovered_drop_zone' = dc.hovered_drop_zone
    /\ is_dragging' = dc.is_dragging

\* The grip of a block is dragged.
OnDrag ==
    \E id \in ElementIds :
        /\ ApplyDrag(start_drag(DragController, id))
        /\ UNCHANGED <<elements, dropCall>>

\* The pointer moves over a block during a drag.
OnDragMove ==
    \E id \in ElementIds, mouse_y \in -1..3 :
        /\ is_dragging
        /\ ApplyDrag(update_hover_zone(DragController, id, mouse_y, 0, 2))
        /\ UNCHANGED <<elements, dropCall>>

\* The dragged block is dropped on the top half (After) or the bottom half
\* (Before) of a block; the halves are rendered during a drag only.
OnDrop ==
    \E id \in ElementIds, direction \in MovingElements :
        /\ is_dragging
        /\ LET r == DragElement_on_drop(DragController, elements, id,
                                        direction)
           IN /\ ApplyDrag(r.controller)
              /\ elements' = r.elements
              /\ dropCall' =
                     [op |-> "drop",
                      from_index |->
                          position_of(elements, unwrap(dragging_id)),
                      target_index |-> position_of(elements, id),
                      position |-> direction,
                      pre |-> elements]

\* The pointer leaves the editor during a drag (DragController::
\* on_outside).
OnOutside ==
    /\ is_dragging
    /\ ApplyDrag(stop_drag(DragController))
    /\ UNCHANGED <<elements, dropCall>>

(***************************************************************************)
(* Specifications                                                          *)
(***************************************************************************)

\* The navigator of an application that does not use the router.
NavInit ==
    /\ NavStart /\ RouterStart /\ debug = TRUE
    /\ SettingsStart /\ DocumentStart /\ FolderStart
    /\ TextStart
    /\ WindowStart
    /\ DragStart

NavNext ==
    \/ Push /\ UNCHANGED outsideNav
    \/ Pop /\ UNCHANGED outsideNav
    \/ Replace /\ UNCHANGED outsideNav
    \/ ClearAndPush /\ UNCHANGED outsideNav

NavSpec == NavInit /\ [][NavNext]_vars

\* The router of an application, after router::init.
RouterInit ==
    /\ RouterStart /\ NavStart /\ SettingsStart /\ DocumentStart /\ FolderStart
    /\ TextStart
    /\ WindowStart
    /\ DragStart

RouterNext ==
    \/ Navigate /\ UNCHANGED outsideRouter
    \/ RoutesNew /\ UNCHANGED outsideRouter
    \/ RoutesBasename /\ UNCHANGED outsideRouter
    \/ RouteNew /\ UNCHANGED outsideRouter
    \/ RoutePath /\ UNCHANGED outsideRouter
    \/ RouteElement /\ UNCHANGED outsideRouter
    \/ RouteLayout /\ UNCHANGED outsideRouter
    \/ RouteIndex /\ UNCHANGED outsideRouter
    \/ RouteChild /\ UNCHANGED outsideRouter
    \/ RoutesChild /\ UNCHANGED outsideRouter
    \/ RenderPass /\ UNCHANGED outsideRouter

RouterSpec == RouterInit /\ [][RouterNext]_vars

\* A layout route rendered on its own.
LayoutInit ==
    /\ LayoutStart /\ NavStart /\ SettingsStart /\ DocumentStart /\ FolderStart
    /\ TextStart
    /\ WindowStart
    /\ DragStart

LayoutNext ==
    \/ Navigate /\ UNCHANGED outsideRouter
    \/ RouteRender /\ UNCHANGED outsideRouter

LayoutSpec == LayoutInit /\ [][LayoutNext]_vars

\* The settings window and the title bar.
SettingsInit ==
    /\ SettingsStart /\ NavStart /\ RouterStart /\ debug = TRUE
    /\ DocumentStart /\ FolderStart
    /\ TextStart
    /\ WindowStart
    /\ DragStart

SettingsNext ==
    \/ OnUiFontSizeChanged /\ UNCHANGED outsideSettings
    \/ OnEditorFontSizeChanged /\ UNCHANGED outsideSettings
    \/ OnZoomChanged /\ UNCHANGED outsideSettings
    \/ OnBlockFontSizeChanged /\ UNCHANGED outsideSettings
    \/ ThemeModeToggle /\ UNCHANGED outsideSettings
    \/ ThemeSelect /\ UNCHANGED outsideSettings
    \/ BlockSwitch /\ UNCHANGED outsideSettings
    \/ CycleThemeMode /\ UNCHANGED outsideSettings

SettingsSpec == SettingsInit /\ [][SettingsNext]_vars

\* The documents of the editor and their autosave.
DocumentInit ==
    /\ DocumentStart /\ NavStart /\ RouterStart /\ debug = TRUE
    /\ SettingsStart /\ FolderStart
    /\ TextStart
    /\ WindowStart
    /\ DragStart

DocumentNext ==
    \/ AddPersistedDocument /\ UNCHANGED outsideDocuments
    \/ EnsureRendererFor /\ UNCHANGED outsideDocuments
    \/ RemoveDocument /\ UNCHANGED outsideDocuments
    \/ AddDocumentAndFocus /\ UNCHANGED outsideDocuments
    \/ MarkChanged /\ UNCHANGED outsideDocuments
    \/ TimerFires /\ UNCHANGED outsideDocuments

DocumentSpec == DocumentInit /\ [][DocumentNext]_vars

\* The folder tree as the sidebar changes it.
FolderInit ==
    /\ FolderStart /\ NavStart /\ RouterStart /\ debug = TRUE
    /\ SettingsStart /\ DocumentStart
    /\ TextStart
    /\ WindowStart
    /\ DragStart

FolderNext ==
    \/ InsertFolder /\ UNCHANGED outsideFolders
    \/ DeleteFolderKeepChildren /\ UNCHANGED outsideFolders
    \/ InsertDocument /\ UNCHANGED outsideFolders
    \/ MoveDocument /\ UNCHANGED outsideFolders

FolderSpec == FolderInit /\ [][FolderNext]_vars

\* The folder tree with calls of move_folder, which the sidebar does not
\* make.
FolderMoveNext ==
    \/ InsertFolder /\ UNCHANGED outsideFolders
    \/ MoveFolder /\ UNCHANGED outsideFolders
    \/ DeleteFolderKeepChildren /\ UNCHANGED outsideFolders

FolderMoveSpec == FolderInit /\ [][FolderMoveNext]_vars

\* One text block of the editor.
TextInit ==
    /\ TextLoaded /\ NavStart /\ RouterStart /\ debug = TRUE
    /\ SettingsStart /\ DocumentStart /\ FolderStart
    /\ WindowStart
    /\ DragStart

TextNext ==
    \/ InputFocus /\ UNCHANGED outsideText
    \/ InputBlur /\ UNCHANGED outsideText
    \/ InputChange /\ UNCHANGED outsideText
    \/ InputPressEnter /\ UNCHANGED outsideText
    \/ MenuDismiss /\ UNCHANGED outsideText

TextSpec == TextInit /\ [][TextNext]_vars

\* The settings window.
WindowInit ==
    /\ WindowStart /\ NavStart /\ RouterStart /\ debug = TRUE
    /\ SettingsStart /\ DocumentStart /\ FolderStart /\ TextStart
    /\ DragStart

WindowNext ==
    \/ SettingsOpen /\ UNCHANGED outsideWindows
    \/ OpenTaskRuns /\ UNCHANGED outsideWindows
    \/ CloseWindow /\ UNCHANGED outsideWindows

WindowSpec == WindowInit /\ [][WindowNext]_vars

\* The blocks of a document reordered by drag and drop.
DragInit ==
    /\ DragStart /\ NavStart /\ RouterStart /\ debug = TRUE
    /\ SettingsStart /\ DocumentStart /\ FolderStart /\ TextStart
    /\ WindowStart

DragNext ==
    \/ OnDrag /\ UNCHANGED outsideDrag
    \/ OnDragMove /\ UNCHANGED outsideDrag
    \/ OnDrop /\ UNCHANGED outsideDrag
    \/ OnOutside /\ UNCHANGED outsideDrag

DragSpec == DragInit /\ [][DragNext]_vars

(***************************************************************************)
(* Claims about the navigator                                              *)
(***************************************************************************)

\* C1: in every reachable state stack.len() == history.len(), and history[i]
\* is the id() of the screen held at stack position i.
C1_StackHistoryParallel ==
    /\ Len(stack) = Len(history)
    /\ \A i \in 1..Len(stack) : history[i] = stack[i].id

\* A replace has acted on a navigator of depth 3 whose screens have
\* different ids.
C1_Witness ==
    /\ navCall.op = "replace"
    /\ Len(stack) = 3
    /\ stack[1].id # stack[3].id

\* C2: pop returns true exactly when the depth before the call is > 1 (when
\* can_go_back() was true); at depth 0 or 1 it returns false, leaves stack and
\* history unchanged and does not notify.
C2_PopContract ==
    navCall.op = "pop" =>
        LET pre == [stack |-> navCall.preStack, history |-> navCall.preHistory]
        IN /\ navCall.ret = (len(pre) > 1)
           /\ navCall.ret = can_go_back(pre)
           /\ len(pre) <= 1 =>
                /\ navCall.ret = FALSE
                /\ stack = navCall.preStack
                /\ history = navCall.preHistory
                /\ notifies = navCall.preNotifies

\* pop was refused on the root screen.
C2_Witness ==
    /\ navCall.op = "pop"
    /\ Len(navCall.preStack) = 1
    /\ navCall.ret = FALSE

\* C3: replace on an empty navigator returns false, pushes nothing and does
\* not notify.
C3_ReplaceOnEmpty ==
    (navCall.op = "replace" /\ navCall.preStack = <<>>) =>
        /\ navCall.ret = FALSE
        /\ stack = <<>>
        /\ history = <<>>
        /\ notifies = navCall.preNotifies

C3_Witness ==
    /\ navCall.op = "replace"
    /\ navCall.preStack = <<>>

\* C4: clear_and_push(s) in any state results in depth exactly 1, current
\* screen s and history exactly [s.id()].
C4_ClearAndPush ==
    navCall.op = "clear_and_push" =>
        /\ Len(stack) = 1
        /\ current(NavState) = navCall.screen
        /\ history = <<navCall.screen.id>>

\* clear_and_push has acted on a navigator of depth 3.
C4_Witness ==
    /\ navCall.op = "clear_and_push"
    /\ Len(navCall.preStack) = 3

\* C5: once a root screen is on the stack, no push or pop removes or changes
\* the screen at position 0 or its history id, and the depth stays >= 1.
C5_RootNotPopped ==
    [][ (Len(stack) >= 1 /\ navCall'.op \in {"push", "pop"}) =>
          /\ Len(stack') >= 1
          /\ Len(history') >= 1
          /\ stack'[1] = stack[1]
          /\ history'[1] = history[1] ]_vars

\* Screens were popped down to the root, which is still the screen it was.
C5_Witness ==
    /\ navCall.op = "pop"
    /\ navCall.ret = TRUE
    /\ Len(stack) = 1
    /\ stack[1] = navCall.preStack[1]

\* C6: replace(s) at depth n >= 1 returns true, keeps the depth n, makes s the
\* current screen with s.id() last in history, and leaves the n-1 entries
\* below the top unchanged (at n = 1 the root itself is replaced).
C6_ReplaceTop ==
    (navCall.op = "replace" /\ Len(navCall.preStack) >= 1) =>
        LET n == Len(navCall.preStack)
        IN /\ navCall.ret = TRUE
           /\ Len(stack) = n
           /\ Len(history) = n
           /\ stack[n] = navCall.screen
           /\ stack[n] # navCall.preStack[n]
           /\ history[n] = navCall.screen.id
           /\ \A i \in 1..(n - 1) :
                /\ stack[i] = navCall.preStack[i]
                /\ history[i] = navCall.preHistory[i]

\* The root itself was replaced.
C6_Witness ==
    /\ navCall.op = "replace"
    /\ Len(navCall.preStack) = 1
    /\ navCall.ret = TRUE

\* C7: every screen put onto the stack by push has had on_enter called.
C7_OnEnterCalled ==
    \A i \in 1..Len(stack) : stack[i].ent \in entered

\* C8: every screen removed from the stack (by a pop that returns true, by
\* replace, by clear_and_push) has had on_exit called.
C8_OnExitCalled ==
    \A e \in 1..nextEntity :
        (\A i \in 1..Len(stack) : stack[i].ent # e) => e \in exited

(***************************************************************************)
(* Claims about the router                                                 *)
(***************************************************************************)

\* The factories of the routes picked for the path s: the first of rs whose
\* patterns match and, under a layout, the first matching child, and so on.
RECURSIVE SelectedFactories(_, _, _)
SelectedFactories(rs, base, s) ==
    LET i == find(rs, base, s)
    IN IF i = 0 THEN {}
       ELSE IF is_some(rs[i].element) THEN {unwrap(rs[i].element)}
       ELSE IF is_some(rs[i].layout)
            THEN SelectedFactories(
                     rs[i].routes,
                     IF is_some(rs[i].path)
                     THEN format_slash(trim_end_matches(base), unwrap(rs[i].path))
                     ELSE trim_end_matches(base),
                     s)
            ELSE {}

\* C9: element factories are evaluated lazily: no builder call invokes a
\* factory, and a render pass invokes at most one factory, that of the route
\* selected for the current pathname; no other route's factory is invoked.
C9_LazyFactories ==
    [][ /\ phase' \in {"idle", "build"} => invoked' = <<>>
        /\ (phase' = "rendered" /\ pathname' = pathname) =>
              /\ Len(invoked') <= 1
              /\ \A k \in 1..Len(invoked') :
                    invoked'[k] \in SelectedFactories(routes, basename, pathname)
        /\ (phase' = "rendered" /\ pathname' # pathname) => invoked' = invoked
      ]_vars

\* Two routes with factories were rendered; the second was selected and only
\* its factory was called.
C9_Witness ==
    /\ phase = "rendered"
    /\ Len(routes) = 2
    /\ is_some(routes[1].element)
    /\ is_some(routes[2].element)
    /\ invoked = <<unwrap(routes[2].element)>>

\* A route and the routes below it.
RECURSIVE Descendants(_)
Descendants(route) ==
    {route} \cup UNION {Descendants(route.routes[i]) : i \in 1..Len(route.routes)}

AllRoutes ==
    UNION ({Descendants(routes[i]) : i \in 1..Len(routes)} \cup
           {Descendants(building[i]) : i \in 1..Len(building)})

\* C10: in a debug build element() on a route with a layout and layout() on a
\* route with an element panic, so no Route value has both set.
C10_ElementXorLayout ==
    debug =>
        /\ \A r \in AllRoutes : ~(is_some(r.element) /\ is_some(r.layout))
        /\ (phase = "panicked" /\ panicMsg = ElementLayoutMsg) =>
              (is_some(Top.element) \/ is_some(Top.layout))

\* element() was called on a route that holds a layout, and panicked.
C10_Witness ==
    /\ debug
    /\ phase = "panicked"
    /\ panicMsg = ElementLayoutMsg
    /\ is_some(Top.layout)

(***************************************************************************)
(* Claims about the route builders and the location                        *)
(***************************************************************************)

\* C11: in a debug build a route on which both index() and path(p) are
\* called panics, whichever of the two is called first: a builder step on a
\* route that index() made an index route (its path is "") never gives it
\* another path without a panic, and a builder step on a route that has a
\* path p never makes it an index route.
C11_IndexPathExclusive ==
    [][(/\ debug
        /\ phase = "build"
        /\ building # <<>>
        /\ Len(building') = Len(building)
        /\ is_some(Top.path)
        /\ building'[Len(building)].path # Top.path
        /\ \/ Top.path = Some(EmptyStr)
           \/ building'[Len(building)].path = Some(EmptyStr))
       => phase' = "panicked"]_vars

\* C12: the pathname is "/" until the first navigate call and after that it
\* is the argument of the latest navigate call, whether or not a route
\* matches it.
C12_PathnameIsLastNavigate ==
    pathname = IF is_some(lastNavigate) THEN unwrap(lastNavigate)
               ELSE RouterState_init.pathname

\* A render pass has run for a pathname that no route matches, and the
\* pathname is still the one navigate was called with.
C12_Witness ==
    /\ phase = "rendered"
    /\ routes # <<>>
    /\ lastNavigate = Some(<<"", "a", "b">>)
    /\ pathname = <<"", "a", "b">>
    /\ ~at(RoutesMap(routes, basename), pathname).ok
    /\ output = EmptyElement

(***************************************************************************)
(* Claims about the render pass                                            *)
(***************************************************************************)

\* A step that is a render pass which did not panic.
RenderStep ==
    /\ phase \in {"build", "rendered"}
    /\ phase' = "rendered"
    /\ pathname' = pathname
    /\ lastNavigate' = lastNavigate

\* C13: a render pass renders the route that owns the pattern the matcher
\* ranks as the match for the pathname, whatever the order in which the
\* routes were declared, and renders Empty when no pattern matches.
C13_BestMatchRendered ==
    [][RenderStep =>
        LET matched == at(RoutesMap(routes, basename), pathname)
        IN IF matched.ok
           THEN \E i \in 1..Len(routes) :
                    /\ matched.pattern \in
                           build_route_map(routes[i], basename).pats
                    /\ output' = Route_render(
                           with_basename(routes[i], basename), pathname).out
           ELSE output' = EmptyElement]_vars

\* C14: after a render pass the params map holds exactly the parameters of
\* the match for the current pathname: no key of an earlier location is
\* left, and the map is empty when the matched route has no parameter or
\* nothing matched.
C14_ParamsOfCurrentMatch ==
    [][RenderStep =>
        LET matched == at(RoutesMap(routes, basename), pathname)
        IN params' = IF matched.ok
                     THEN {matched.params[k] : k \in DOMAIN matched.params}
                     ELSE {}]_vars

\* The children of a layout route that match the pathname: their own
\* pattern, under the base path of the layout route, matches it.
MatchingChildren(route, s) ==
    LET b == trim_end_matches(route.basename)
        base == IF is_some(route.path)
                THEN format_slash(b, unwrap(route.path))
                ELSE b
    IN {i \in 1..Len(route.routes) :
           \E p \in build_route_map(route.routes[i], base).pats :
               Matches(p, s)}

\* C15: when a layout route is rendered, the rendered layout holds in its
\* outlet the output of the first child whose pattern matches the pathname;
\* when no child matches the layout is rendered with nothing in its outlet.
C15_LayoutOutlet ==
    [][(RenderStep /\ Len(routes) = 1 /\ is_some(routes[1].layout)) =>
        LET hits == MatchingChildren(routes[1], pathname)
            first == CHOOSE i \in hits : \A j \in hits : i <= j
        IN output' =
             IF hits = {}
             THEN LayoutElement(unwrap(routes[1].layout), None)
             ELSE LayoutElement(unwrap(routes[1].layout),
                    Some(FactoryElement(
                           unwrap(routes[1].routes[first].element))))]_vars

\* A layout route with two children that both match the pathname has been
\* rendered, with the first child in the outlet.
C15_Witness ==
    /\ phase = "rendered"
    /\ Len(routes) = 1
    /\ is_some(routes[1].layout)
    /\ lastNavigate = Some(pathname)
    /\ Cardinality(MatchingChildren(routes[1], pathname)) >= 2
    /\ output.kind = "layout"
    /\ output.outlet = Some(FactoryElement(unwrap(routes[1].routes[
           CHOOSE i \in MatchingChildren(routes[1], pathname) :
               \A j \in MatchingChildren(routes[1], pathname) : i <= j
           ].element)))

(***************************************************************************)
(* Claims about the settings                                               *)
(***************************************************************************)

\* C16: every operation that changes the global Settings saves it in the
\* same update: the settings either are as they were loaded, with nothing
\* saved yet, or equal what the latest Settings::save call wrote.
C16_SavedOnEveryChange ==
    IF is_some(saved) THEN unwrap(saved) = to_json(settings)
    ELSE settings = Settings_default

(***************************************************************************)
(* Claims about the document state                                         *)
(***************************************************************************)

\* The effect of the task of the k-th mark_changed call, when it runs: it
\* sets persistence to Idle, and issues update_document if the document had
\* a renderer, when last_change is not after its trigger time; otherwise
\* it changes nothing.
FireEffect(k) ==
    IF is_some(last_change) /\ unwrap(last_change) <= timers[k].trigger_time
    THEN /\ persistence' = "Idle"
         /\ issued' = IF is_some(timers[k].renderer)
                      THEN Append(issued,
                                  [id |-> timers[k].uid,
                                   trigger_time |-> timers[k].trigger_time])
                      ELSE issued
    ELSE UNCHANGED <<persistence, issued, pending_notification, last_change>>

\* A finished burst: n >= 1 mark_changed calls on one document with a
\* renderer, at strictly increasing instants, all made before any timer
\* fired, no later change recorded, and every timer has fired.
BurstDone ==
    /\ timers # <<>>
    /\ ~lateCall
    /\ \A k \in DOMAIN timers :
           /\ timers[k].fired
           /\ timers[k].uid = timers[1].uid
           /\ is_some(timers[k].renderer)
           /\ k > 1 => timers[k - 1].trigger_time < timers[k].trigger_time
    /\ last_change = Some(timers[Len(timers)].trigger_time)

\* C17: a timer issues update_document and sets persistence to Idle only
\* when no later mark_changed was recorded (last_change <= its trigger
\* time) and otherwise does nothing; after a burst of mark_changed calls
\* exactly one update_document has been issued, by the timer of the last
\* call.
C17_Debounce ==
    [][/\ \A k \in DOMAIN timers :
             (Len(timers') = Len(timers) /\ ~timers[k].fired
                 /\ timers'[k].fired) => FireEffect(k)
       /\ BurstDone' =>
             issued' = <<[id |-> timers'[1].uid,
                          trigger_time |->
                              timers'[Len(timers')].trigger_time]>>]_vars

\* A burst of two calls is over: both timers have fired and one
\* update_document was issued, by the second.
C17_Witness ==
    /\ BurstDone
    /\ Len(timers) >= 2
    /\ issued = <<[id |-> timers[1].uid,
                   trigger_time |-> timers[Len(timers)].trigger_time]>>

(***************************************************************************)
(* Claims about the folder repository                                      *)
(***************************************************************************)

\* The k-th folder up the parent chain of id (id itself for k = 0), 0 when
\* the chain ends before it.
Ancestor(fs, id, k) ==
    LET up[j \in 0..k] ==
            IF j = 0 THEN id
            ELSE IF up[j - 1] \in DOMAIN fs /\ is_some(fs[up[j - 1]].parent_id)
                 THEN unwrap(fs[up[j - 1]].parent_id)
                 ELSE 0
    IN up[k]

\* The folder id has depth >= d (root folders have depth 1): its parent
\* chain holds at least d folders. On a cyclic chain this holds for every d.
DepthAtLeast(fs, id, d) == Ancestor(fs, id, d - 1) \in DOMAIN fs

\* C18: a delete_folder_keep_children(id) that succeeded on a folder with
\* parent p removed the row id, gave the parent p to every folder and every
\* document that had id as parent or folder, changed no other row, and
\* left no row that names id.
C18_DeleteKeepsChildren ==
    (folderCall.op = "delete_folder_keep_children" /\ folderCall.ret = "ok")
    => LET pre == folderCall.pre
           id == folderCall.id
           p == pre.folders[id].parent_id
       IN /\ id \in DOMAIN pre.folders
          /\ DOMAIN folders = DOMAIN pre.folders \ {id}
          /\ \A i \in DOMAIN folders :
                /\ folders[i].name = pre.folders[i].name
                /\ folders[i].parent_id =
                      IF pre.folders[i].parent_id = Some(id) THEN p
                      ELSE pre.folders[i].parent_id
                /\ folders[i].parent_id # Some(id)
          /\ DOMAIN docRows = DOMAIN pre.documents
          /\ \A d \in DOMAIN docRows :
                /\ docRows[d].folder_id =
                      IF pre.documents[d].folder_id = Some(id) THEN p
                      ELSE pre.documents[d].folder_id
                /\ docRows[d].folder_id # Some(id)

\* A folder that had a parent, a sub-folder and a document was deleted and
\* its sub-folder and document are now under its parent.
C18_Witness ==
    /\ folderCall.op = "delete_folder_keep_children"
    /\ folderCall.ret = "ok"
    /\ is_some(folderCall.pre.folders[folderCall.id].parent_id)
    /\ \E i \in DOMAIN folders :
          /\ folderCall.pre.folders[i].parent_id = Some(folderCall.id)
          /\ folders[i].parent_id =
                folderCall.pre.folders[folderCall.id].parent_id
    /\ \E d \in DOMAIN docRows :
          /\ folderCall.pre.documents[d].folder_id = Some(folderCall.id)
          /\ docRows[d].folder_id =
                folderCall.pre.folders[folderCall.id].parent_id

C20_MoveDepth ==
    \A i \in DOMAIN folders : ~DepthAtLeast(folders, i, 4)

(***************************************************************************)
(* Claims about the text node                                              *)
(***************************************************************************)

\* The events of the given kind among those the latest handler emitted.
Emitted(kind) == {i \in DOMAIN emitted : emitted[i].kind = kind}

\* C21: when the input-change handling of a text node has run, it emitted
\* Empty exactly when the content was non-empty before the change and the
\* input is empty now; in every other case it emitted Change with the new
\* content, and no Empty.
C21_EmptyWhenBecameEmpty ==
    Emitted("Empty") \cup Emitted("Change") # {}
    => IF Len(old_content) > 0 /\ Len(input_value) = 0
       THEN Emitted("Empty") # {} /\ Emitted("Change") = {}
       ELSE /\ Emitted("Empty") = {}
            /\ \E i \in Emitted("Change") :
                   emitted[i].content = input_value

(***************************************************************************)
(* Claims about the settings window                                        *)
(***************************************************************************)

\* C22: at most one settings window exists at any time, whatever the order
\* of the open calls and of the window-creation tasks they spawned.
C22_OneSettingsWindow == Cardinality(windows) <= 1

(***************************************************************************)
(* Claims about persistence across documents                               *)
(***************************************************************************)

\* C23: every change to a document is eventually persisted: when every
\* call of mark_changed found its current document open with a renderer
\* and every task these calls spawned has run, update_document has been
\* issued for each of these documents, also when another document became
\* current and was changed before the task of the first one ran.
C23_EveryChangePersisted ==
    (/\ \A k \in DOMAIN timers :
            /\ timers[k].fired
            /\ is_some(timers[k].renderer)
            /\ has_document(DocState, timers[k].uid)
     /\ \E k \in DOMAIN timers : Some(timers[k].trigger_time) = last_change)
    => \A k \in DOMAIN timers :
           \E i \in DOMAIN issued : issued[i].id = timers[k].uid

(***************************************************************************)
(* Claims about the drag controller                                        *)
(***************************************************************************)

\* The Vec without the block with the id.
Without(v, id) == SelectSeq(v, LAMBDA e : e # id)

\* C24: after a drop with from_index # target_index the Vec is a
\* permutation of the Vec before the drop, the blocks other than the moved
\* one keep their relative order, and the moved block sits immediately
\* before the target block for a drop on its top half (After) and
\* immediately after it for a drop on its bottom half (Before).
C24_DropReorders ==
    (dropCall.op = "drop" /\ dropCall.from_index # dropCall.target_index)
    => LET pre == dropCall.pre
           moved == pre[dropCall.from_index + 1]
           target == pre[dropCall.target_index + 1]
       IN /\ Len(elements) = Len(pre)
          /\ {elements[i] : i \in DOMAIN elements}
                = {pre[i] : i \in DOMAIN pre}
          /\ Without(elements, moved) = Without(pre, moved)
          /\ dropCall.position = "After"
                => position_of(elements, moved) + 1
                      = position_of(elements, target)
          /\ dropCall.position = "Before"
                => position_of(elements, moved)
                      = position_of(elements, target) + 1

\* A block was dropped on the top half of a block further down, which is
\* not its neighbour.
C24_Witness ==
    /\ dropCall.op = "drop"
    /\ dropCall.position = "After"
    /\ dropCall.from_index + 1 < dropCall.target_index
    /\ elements # dropCall.pre

====
